---- MODULE Spec2Model ----
(***************************************************************************)
(* RecLab: the SLIM recommender (reclab/recommenders/slim.py) and          *)
(* split_ratings (reclab/data_utils.py).                                   *)
(*                                                                         *)
(* Matrices are functions [row -> [column -> integer]] over zero-based     *)
(* index ranges; a sparse matrix is a record of its scipy format and its   *)
(* elements.  The user and item registries keep their size.                *)
(*                                                                         *)
(* The regression model is an external solver: a call of fit returns any   *)
(* coefficient vector or raises, and leaves its design matrix as it got    *)
(* it.  slim.py binds the solver to self._model, calls it as self.model    *)
(* and never imports the name ElasticNet; the model takes the solver as    *)
(* given, and a call that cannot be made is a call that raises.            *)
(*                                                                         *)
(* PredictRecommender (reclab/recommenders/recommender.py) is not among    *)
(* the sources: what super().update() stores and the format it keeps       *)
(* self._ratings in are taken from the specification's Rating Store.       *)
(***************************************************************************)
EXTENDS Integers, Sequences, FiniteSets, TLC

\* ---------------------------------------------------------------- bounds
NumUsers == 1
NumItems == 2
RatingValue == 1
CoefValue == 1
MaxQueries == 2
MaxObserved == 2
MaxWeights == 1
MaxLen == 3
PropDen == 4

Users == 0 .. (NumUsers - 1)
Items == 0 .. (NumItems - 1)

\* A cell of the rating matrix is unobserved (0) or holds a rating; a
\* coefficient is zero or not.  No operation compares two ratings or two
\* coefficients, so one non-zero value of each stands for all.
Ratings == {0, RatingValue}
CoefValues == {0, CoefValue}

\* Element arrays of the rating matrix (users x items), of the weight matrix
\* (items x items) and of a coefficient vector.
RatingMatrices == [Users -> [Items -> Ratings]]
Coefs == [Items -> CoefValues]
ZeroRatings == [u \in Users |-> [i \in Items |-> 0]]
ZeroWeights == [j \in Items |-> [i \in Items |-> 0]]

\* The number of non-zero elements of a matrix.
NonZeros(m) ==
    Cardinality({c \in (DOMAIN m) \X Items : m[c[1]][c[2]] # 0})

\* Rating matrices built from a mapping of at most MaxObserved ratings.
SparseRatingMatrices == {R \in RatingMatrices : NonZeros(R) <= MaxObserved}

\* Weight matrices a completed training loop leaves: a zero diagonal, any
\* coefficients elsewhere; here those with at most MaxWeights non-zero ones.
TrainedWeights ==
    {w \in [Items -> [Items -> CoefValues]] :
        /\ \A i \in Items : w[i][i] = 0
        /\ NonZeros(w) <= MaxWeights}

\* The formats a PredictRecommender may keep self._ratings in.
StoreFormats == {"dok", "csc"}

VARIABLES
    _ratings,       \* self._ratings: [fmt, m]
    _weights,       \* self._weights: [fmt, m], fmt = "none" while it is None
    ratings,        \* update's local `ratings` (the CSC matrix the loop works on)
    target,         \* update's local `target`
    item_id,        \* update's loop variable
    sparse_coef_,   \* self.model.sparse_coef_: the last fitted coefficients
    pc,             \* "new" | "loop" | "fit" | "returned" | "raised"
    orig,           \* history: elements of the rating matrix when the loop started
    calls,          \* history: item ids self.model.fit was invoked for, this update
    user_item,      \* _predict's argument, while a call is returning
    predictions,    \* _predict's outcome, while a call is returning: [status, val]
    memo,           \* deterministic solver: the (X, y, coef) triples it has answered
    prev_weights,   \* history: self._weights when the current update began
    sr_ratings,     \* split_ratings: `ratings` argument, a sequence of <<key, val>>
    sr_proportion,  \* split_ratings: `proportion` as a numerator over PropDen
    sr_shuffle,     \* split_ratings: `shuffle` argument
    sr_out          \* split_ratings: [done, split_1, split_2]

slimVars == <<_ratings, _weights, ratings, target, item_id, sparse_coef_, pc,
              orig, calls, user_item, predictions>>
detVars == <<memo, prev_weights>>
splitVars == <<sr_ratings, sr_proportion, sr_shuffle, sr_out>>
vars == <<slimVars, detVars, splitVars>>

\* ------------------------------------------------------- matrix helpers
\* Variant: the column is read after it was zeroed.
ColumnAfterZero(m, i) == [u \in DOMAIN m |-> 0]

\* ratings[:, item_id].toarray(): a dense copy of one column.
Column(m, i) == [u \in DOMAIN m |-> m[u][i]]

\* Variant: the column is left as it is.
KeepCol(m, i) == m

\* ratings[:, item_id] = 0
ZeroCol(m, i) == [u \in DOMAIN m |-> [m[u] EXCEPT ![i] = 0]]

\* Variant: the column is not written back.
NoRestore(m, i, t) == m

\* ratings[:, item_id] = target
RestoreCol(m, i, t) == [u \in DOMAIN m |-> [m[u] EXCEPT ![i] = t[u]]]

\* self._weights[:, item_id] = self.model.sparse_coef_
SetWeightCol(w, i, c) == [j \in DOMAIN w |-> [w[j] EXCEPT ![i] = c[j]]]

\* Variant: the diagonal entry is left as fitted.
KeepDiag(w, i) == w

\* self._weights[item_id, item_id] = 0
SetDiagZero(w, i) == [w EXCEPT ![i][i] = 0]

\* range(num_items): the item after i.
NextItem(i) == i + 1

\* scipy.sparse.dok_matrix((num_items, num_items))
NewDok == [fmt |-> "dok", m |-> ZeroWeights]

\* self._weights.tocsr()
ToCsr(w) == [fmt |-> "csr", m |-> w.m]

\* self._ratings.tocsc(): a CSC matrix with the same elements.
ToCsc(r) == [fmt |-> "csc", m |-> r.m]

\* scipy's tocsc() returns the matrix itself when it already is CSC and a
\* converted copy otherwise: whether `ratings` and self._ratings are one object.
SameObject(r) == r.fmt = "csc"

\* self._ratings after the loop wrote elements m into `ratings`.
StoreAfterWrite(r, m) == IF SameObject(r) THEN [r EXCEPT !.m = m] ELSE r

NoPrediction == [status |-> "none", val |-> <<>>]
Quiescent == {"new", "returned", "raised"}

\* ------------------------------------------------------------- SLIM.update
\* super().update(users, items, ratings) and lines 52-54: the rating store
\* holds elements R, a fresh DOK weight matrix is stored, `ratings` is the CSC
\* form of the store.
UpdateBegin(R) ==
    /\ pc \in Quiescent
    /\ predictions = NoPrediction
    /\ _ratings' = [_ratings EXCEPT !.m = R]
    /\ _weights' = NewDok
    /\ ratings' = ToCsc([_ratings EXCEPT !.m = R])
    /\ item_id' = 0
    /\ pc' = "loop"
    /\ orig' = R
    /\ calls' = <<>>
    /\ UNCHANGED <<target, sparse_coef_, user_item, predictions>>

\* Lines 56-60: take the target column, zero it in `ratings`, call the solver.
FitCall ==
    /\ pc = "loop"
    /\ item_id < NumItems
    /\ target' = Column(ratings.m, item_id)
    /\ ratings' = [ratings EXCEPT !.m = ZeroCol(ratings.m, item_id)]
    /\ _ratings' = StoreAfterWrite(_ratings, ZeroCol(ratings.m, item_id))
    /\ calls' = Append(calls, item_id)
    /\ pc' = "fit"
    /\ UNCHANGED <<_weights, item_id, sparse_coef_, orig, user_item, predictions>>

\* Lines 60-64: the solver returned coefficients c; store the column, clear the
\* diagonal entry, restore the rating column, go to the next item.
FitReturn(c) ==
    /\ pc = "fit"
    /\ sparse_coef_' = c
    /\ _weights' = [_weights EXCEPT
                      !.m = SetDiagZero(SetWeightCol(_weights.m, item_id, c), item_id)]
    /\ ratings' = [ratings EXCEPT !.m = RestoreCol(ratings.m, item_id, target)]
    /\ _ratings' = StoreAfterWrite(_ratings, RestoreCol(ratings.m, item_id, target))
    /\ item_id' = NextItem(item_id)
    /\ pc' = "loop"
    /\ UNCHANGED <<target, orig, calls, user_item, predictions>>

\* Line 60: the solver raised; update has no handler, the exception leaves it.
FitRaise ==
    /\ pc = "fit"
    /\ pc' = "raised"
    /\ UNCHANGED <<_ratings, _weights, ratings, target, item_id, sparse_coef_,
                   orig, calls, user_item, predictions>>

\* Line 65: the loop is over; the weight matrix is converted to CSR.
UpdateEnd ==
    /\ pc = "loop"
    /\ item_id >= NumItems
    /\ _weights' = ToCsr(_weights)
    /\ pc' = "returned"
    /\ UNCHANGED <<_ratings, ratings, target, item_id, sparse_coef_,
                   orig, calls, user_item, predictions>>

\* ------------------------------------------------------------ SLIM._predict
\* Variant: the weight matrix is read transposed.
RECURSIVE RowTimesRow(_, _, _, _)
RowTimesRow(row, w, i, j) ==
    IF j < 0 THEN 0 ELSE RowTimesRow(row, w, i, j - 1) + row[j] * w[i][j]

\* One entry of self._ratings @ self._weights: row u of R times column i of W,
\* accumulated over the items 0 .. j.
RECURSIVE RowTimesCol(_, _, _, _)
RowTimesCol(row, w, i, j) ==
    IF j < 0 THEN 0 ELSE RowTimesCol(row, w, i, j - 1) + row[j] * w[j][i]

MatMul(r, w) ==
    [u \in DOMAIN r |-> [i \in DOMAIN w |-> RowTimesCol(r[u], w, i, NumItems - 1)]]

\* Variant: a missing weight matrix counts as all zero.
ProductOrZero(r, w) == [ok |-> TRUE, val |-> MatMul(r.m, w.m)]

\* self._ratings @ self._weights; the product with None raises.
Product(r, w) == [ok |-> w.fmt # "none", val |-> MatMul(r.m, w.m)]

\* Variant: the prediction is put in front.
PrependPrediction(preds, all, pair) == <<all[pair[1]][pair[2]]>> \o preds

\* predictions.append(all_predictions[user_id, item_id])
AppendPrediction(preds, all, pair) == Append(preds, all[pair[1]][pair[2]])

\* for (user_id, item_id), _ in user_item: ...  from the k-th query on.
RECURSIVE PredictLoop(_, _, _, _)
PredictLoop(all, q, k, preds) ==
    IF k > Len(q) THEN preds
    ELSE PredictLoop(all, q, k + 1, AppendPrediction(preds, all, q[k][1]))

PredictResult(r, w, q) ==
    LET all == Product(r, w)
    IN  IF all.ok
        THEN [status |-> "ok", val |-> PredictLoop(all.val, q, 1, <<>>)]
        ELSE [status |-> "error", val |-> <<>>]

\* The user_item arguments: sequences of ((user_id, item_id), context).
Queries ==
    UNION {[1 .. n -> {<<<<u, i>>, "ctx">> : u \in Users, i \in Items}] : n \in 0 .. MaxQueries}

\* Lines 69-72: the call computed its outcome and is about to hand it over.
Predict(q) ==
    /\ pc \in Quiescent
    /\ predictions = NoPrediction
    /\ user_item' = q
    /\ predictions' = PredictResult(_ratings, _weights, q)
    /\ UNCHANGED <<_ratings, _weights, ratings, target, item_id, sparse_coef_,
                   pc, orig, calls>>

\* Line 74 (or the exception of line 69): the caller has the outcome, the
\* call's frame is gone.
PredictReturn ==
    /\ predictions # NoPrediction
    /\ user_item' = <<>>
    /\ predictions' = NoPrediction
    /\ UNCHANGED <<_ratings, _weights, ratings, target, item_id, sparse_coef_,
                   pc, orig, calls>>

\* ------------------------------------------------------------ split_ratings
Keys == 1 .. MaxLen
SplitValues == 0 .. 1
Entries == {<<k, v>> : k \in Keys, v \in SplitValues}

\* A dict as the sequence of its items in insertion order: keys are distinct.
RatingDicts ==
    {d \in UNION {[1 .. n -> Entries] : n \in 0 .. MaxLen} :
        \A a, b \in 1 .. Len(d) : d[a][1] = d[b][1] => a = b}

KeysOf(d) == {d[a][1] : a \in 1 .. Len(d)}

\* split[key] = val on an OrderedDict: a new key goes last, a known key keeps
\* its place and takes the value.
DictSet(d, key, val) ==
    IF key \in KeysOf(d)
    THEN [a \in 1 .. Len(d) |-> IF d[a][1] = key THEN <<key, val>> ELSE d[a]]
    ELSE Append(d, <<key, val>>)

\* split_1_end = int(proportion * len(ratings)), proportion = p / PropDen.
Split1End(p, n) == (p * n) \div PropDen

\* Variant: the boundary entry goes to the first group.
InSplit1Inclusive(i, end) == i <= end

\* if i < split_1_end
InSplit1(i, end) == i < end

\* for i, (key, val) in enumerate(iterator): ...  from position a (i = a - 1) on.
RECURSIVE SplitLoop(_, _, _, _, _)
SplitLoop(iterator, end, a, split_1, split_2) ==
    IF a > Len(iterator) THEN [done |-> TRUE, split_1 |-> split_1, split_2 |-> split_2]
    ELSE IF InSplit1(a - 1, end)
         THEN SplitLoop(iterator, end, a + 1,
                        DictSet(split_1, iterator[a][1], iterator[a][2]), split_2)
         ELSE SplitLoop(iterator, end, a + 1,
                        split_1, DictSet(split_2, iterator[a][1], iterator[a][2]))

\* np.random.shuffle(iterator): any reordering of the list.
Shuffles(d) ==
    {[a \in 1 .. Len(d) |-> d[p[a]]] : p \in Permutations(1 .. Len(d))}

SplitRatingsOn(iterator) ==
    sr_out' = SplitLoop(iterator, Split1End(sr_proportion, Len(sr_ratings)),
                        1, <<>>, <<>>)

SplitPlain ==
    /\ ~sr_out.done
    /\ ~sr_shuffle
    /\ SplitRatingsOn(sr_ratings)
    /\ UNCHANGED <<sr_ratings, sr_proportion, sr_shuffle>>

SplitShuffled ==
    /\ ~sr_out.done
    /\ sr_shuffle
    /\ \E iterator \in Shuffles(sr_ratings) : SplitRatingsOn(iterator)
    /\ UNCHANGED <<sr_ratings, sr_proportion, sr_shuffle>>

\* ------------------------------------------------ deterministic solver
\* A solver that is a function of (design matrix, target): a pair it has
\* answered before gets the same answer.
MemoAnswers(X, y) == {t[3] : t \in {s \in memo : s[1] = X /\ s[2] = y}}

DetFitReturn ==
    /\ pc = "fit"
    /\ IF MemoAnswers(ratings.m, target) # {}
       THEN /\ \E c \in MemoAnswers(ratings.m, target) : FitReturn(c)
            /\ UNCHANGED memo
       ELSE \E c \in Coefs :
               /\ FitReturn(c)
               /\ memo' = memo \cup {<<ratings.m, target, c>>}
    /\ UNCHANGED prev_weights

DetUpdateFirst ==
    /\ pc = "new"
    /\ \E R \in RatingMatrices : UpdateBegin(R)
    /\ prev_weights' = _weights
    /\ UNCHANGED memo

\* update() again with no new ratings: the store keeps its elements.
DetUpdateAgain ==
    /\ pc = "returned"
    /\ UpdateBegin(_ratings.m)
    /\ prev_weights' = _weights
    /\ UNCHANGED memo

\* ------------------------------------------------------ specifications
SlimInit ==
    /\ _ratings \in {[fmt |-> f, m |-> ZeroRatings] : f \in StoreFormats}
    /\ _weights = [fmt |-> "none", m |-> ZeroWeights]
    /\ ratings = [fmt |-> "csc", m |-> ZeroRatings]
    /\ target = [u \in Users |-> 0]
    /\ item_id = 0
    /\ sparse_coef_ = [i \in Items |-> 0]
    /\ pc = "new"
    /\ orig = ZeroRatings
    /\ calls = <<>>
    /\ user_item = <<>>
    /\ predictions = NoPrediction

DetIdle == memo = {} /\ prev_weights = [fmt |-> "none", m |-> ZeroWeights]

SplitIdle ==
    /\ sr_ratings = <<>>
    /\ sr_proportion = 0
    /\ sr_shuffle = FALSE
    /\ sr_out = [done |-> FALSE, split_1 |-> <<>>, split_2 |-> <<>>]

SplitInit ==
    /\ sr_ratings \in RatingDicts
    /\ sr_proportion \in 0 .. PropDen
    /\ sr_shuffle \in BOOLEAN
    /\ sr_out = [done |-> FALSE, split_1 |-> <<>>, split_2 |-> <<>>]

\* The recommender with any solver: updates and solver failures.
Init == SlimInit /\ DetIdle /\ SplitIdle

Update ==
    /\ \E R \in RatingMatrices : UpdateBegin(R)
    /\ UNCHANGED <<detVars, splitVars>>

Fit == FitCall /\ UNCHANGED <<detVars, splitVars>>

Fitted ==
    /\ \E c \in Coefs : FitReturn(c)
    /\ UNCHANGED <<detVars, splitVars>>

FitFailed == FitRaise /\ UNCHANGED <<detVars, splitVars>>

Updated == UpdateEnd /\ UNCHANGED <<detVars, splitVars>>

Next == Update \/ Fit \/ Fitted \/ FitFailed \/ Updated

Spec == Init /\ [][Next]_vars

\* _predict applied to a recommender that was never updated or whose last
\* update returned: the state SLIM.update leaves for rating matrix R when the
\* solver's answers made up weight matrix W.
TrainedState(f, R, W) ==
    /\ _ratings = [fmt |-> f, m |-> R]
    /\ _weights = [fmt |-> "csr", m |-> W]
    /\ ratings = [fmt |-> "csc", m |-> R]
    /\ target = Column(R, NumItems - 1)
    /\ item_id = NumItems
    /\ sparse_coef_ = Column(W, NumItems - 1)
    /\ pc = "returned"
    /\ orig = R
    /\ calls = [k \in 1 .. NumItems |-> k - 1]
    /\ user_item = <<>>
    /\ predictions = NoPrediction

InitPredict ==
    /\ \/ SlimInit
       \/ \E f \in StoreFormats, R \in SparseRatingMatrices, W \in TrainedWeights :
             TrainedState(f, R, W)
    /\ DetIdle
    /\ SplitIdle

Predicted ==
    /\ \E q \in Queries : Predict(q)
    /\ UNCHANGED <<detVars, splitVars>>

PredictDone == PredictReturn /\ UNCHANGED <<detVars, splitVars>>

PredictNext == Predicted \/ PredictDone

SpecPredict == InitPredict /\ [][PredictNext]_vars

\* The recommender with a deterministic solver, retrained on the same ratings.
DetFirst == DetUpdateFirst /\ UNCHANGED splitVars

DetAgain == DetUpdateAgain /\ UNCHANGED splitVars

DetFitted == DetFitReturn /\ UNCHANGED splitVars

DetNext == DetFirst \/ DetAgain \/ Fit \/ DetFitted \/ Updated

SpecDet == Init /\ [][DetNext]_vars

\* split_ratings applied to every bounded input.
InitSplit == SlimInit /\ DetIdle /\ SplitInit

SplitNoShuffle == SplitPlain /\ UNCHANGED <<slimVars, detVars>>

SplitShuffle == SplitShuffled /\ UNCHANGED <<slimVars, detVars>>

SplitNext == SplitNoShuffle \/ SplitShuffle

SpecSplit == InitSplit /\ [][SplitNext]_vars

\* ---------------------------------------------------------------- claims
\* The last solver call of the current update was made for this item.
LastCalled == calls[Len(calls)]

\* Every column of the rating matrix the loop started from holds a rating.
NoEmptyColumn == \A i \in Items : \E u \in Users : orig[u][i] # 0

\* The sum of f[x] over the finite set S.
RECURSIVE SumOver(_, _)
SumOver(S, f) ==
    IF S = {} THEN 0
    ELSE LET x == CHOOSE y \in S : TRUE IN f[x] + SumOver(S \ {x}, f)

\* C1: after a successful update the stored weight matrix has a zero diagonal,
\* whatever coefficient vectors the solver returned.
C1_ZeroDiagonal ==
    pc = "returned" => \A i \in Items : _weights.m[i][i] = 0

\* A successful update whose last fit returned a non-zero own-item coefficient.
C1_Witness ==
    /\ pc = "returned"
    /\ sparse_coef_[NumItems - 1] # 0
    /\ \E j \in Items : _weights.m[j][NumItems - 1] # 0

\* C2: when update returns, the stored rating matrix (and the CSC matrix the
\* loop worked on) holds the elements it held when the per-item loop started.
C2_RatingsUnchanged ==
    pc = "returned" => (_ratings.m = orig /\ ratings.m = orig)

\* A successful update that zeroed non-empty columns of the stored matrix itself.
C2_Witness ==
    /\ pc = "returned"
    /\ SameObject(_ratings)
    /\ NoEmptyColumn

\* C3: when the solver raises during the fit for item k, the rating matrix
\* (stored, and the CSC matrix the loop worked on) holds its original elements
\* after the failed update, column k included.
C3_RestoredAfterFailure ==
    pc = "raised" => (_ratings.m = orig /\ ratings.m = orig)

\* C4: whenever _predict can read self._weights (no update is running), it is
\* None or the result of a loop that stored the columns of all items.
C4_WeightsNeverPartial ==
    pc \in Quiescent =>
        \/ _weights.fmt = "none"
        \/ _weights.fmt = "csr" /\ item_id = NumItems

\* C5: _predict's output is as long as its input and its k-th element is the
\* entry of the product for the k-th input pair.
C5_OutputInQueryOrder ==
    predictions.status = "ok" =>
        /\ Len(predictions.val) = Len(user_item)
        /\ \A k \in 1 .. Len(user_item) :
              predictions.val[k] =
                  MatMul(_ratings.m, _weights.m)[user_item[k][1][1]][user_item[k][1][2]]

\* Two different predictions returned for two queries.
C5_Witness ==
    /\ predictions.status = "ok"
    /\ Len(user_item) = 2
    /\ predictions.val[1] # predictions.val[2]

\* C6: the prediction for (u, i) is the sum over all items j of R[u,j] * W[j,i],
\* R the stored rating matrix and W the stored weight matrix.
C6_PredictionIsDotProduct ==
    predictions.status = "ok" =>
        \A k \in 1 .. Len(predictions.val) :
            LET u == user_item[k][1][1]
                i == user_item[k][1][2]
            IN  predictions.val[k] =
                    SumOver(Items, [j \in Items |-> _ratings.m[u][j] * _weights.m[j][i]])

\* A non-zero prediction for a pair that was not observed.
C6_Witness ==
    /\ predictions.status = "ok"
    /\ \E k \in 1 .. Len(predictions.val) :
          /\ predictions.val[k] # 0
          /\ _ratings.m[user_item[k][1][1]][user_item[k][1][2]] = 0

\* floor(p / PropDen * n)
FloorOfProportion(p, n) ==
    CHOOSE f \in 0 .. n : f * PropDen <= p * n /\ (f + 1) * PropDen > p * n

\* C7: without shuffling, split_ratings returns the first floor(proportion * n)
\* entries and then the remaining entries, both in insertion order; the key sets
\* are disjoint, cover the input keys, and every value is unchanged.
C7_SplitKeepsOrder ==
    (sr_out.done /\ ~sr_shuffle) =>
        LET n == Len(sr_ratings)
            f == FloorOfProportion(sr_proportion, n)
        IN  /\ sr_out.split_1 = SubSeq(sr_ratings, 1, f)
            /\ sr_out.split_2 = SubSeq(sr_ratings, f + 1, n)
            /\ KeysOf(sr_out.split_1) \cap KeysOf(sr_out.split_2) = {}
            /\ KeysOf(sr_out.split_1) \cup KeysOf(sr_out.split_2) = KeysOf(sr_ratings)

\* An unshuffled split with both groups non-empty and proportion * n fractional.
C7_Witness ==
    /\ sr_out.done
    /\ ~sr_shuffle
    /\ sr_out.split_1 # <<>>
    /\ sr_out.split_2 # <<>>
    /\ (sr_proportion * Len(sr_ratings)) % PropDen # 0

\* C8: _predict on a recommender whose self._weights is still None ends in an
\* error and returns no predictions.
C8_PredictBeforeTrainingFails ==
    (predictions # NoPrediction /\ _weights.fmt = "none") =>
        (predictions.status = "error" /\ predictions.val = <<>>)

\* _predict was called with queries before any update and raised.
C8_Witness ==
    /\ predictions.status = "error"
    /\ user_item # <<>>

\* C9: the solver is called once per item in the order 0, 1, ...; at the call
\* for item i column i of the design matrix is zero, every other column and
\* the target are the original ones; the returned vector becomes column i of W
\* (off the diagonal, which C1 covers).
C9_LeaveOneOut ==
    /\ \A k \in 1 .. Len(calls) : calls[k] = k - 1
    /\ pc = "returned" => Len(calls) = NumItems
    /\ pc = "fit" =>
          /\ LastCalled = item_id
          /\ \A u \in Users : ratings.m[u][item_id] = 0
          /\ \A j \in Items \ {item_id} : Column(ratings.m, j) = Column(orig, j)
          /\ target = Column(orig, item_id)
    /\ (pc \in {"loop", "returned"} /\ calls # <<>>) =>
          \A j \in Items \ {LastCalled} : _weights.m[j][LastCalled] = sparse_coef_[j]

\* The solver is called for the last item on a matrix without empty columns.
C9_Witness ==
    /\ pc = "fit"
    /\ item_id = NumItems - 1
    /\ NoEmptyColumn

\* C10: with a solver that is a function of (design matrix, target), training
\* again on the same rating matrix gives the weight matrix of the training before.
C10_RetrainingIsIdempotent ==
    (pc = "returned" /\ prev_weights.fmt = "csr") => _weights = prev_weights

\* A second training returned and its weight matrix is not all zero.
C10_Witness ==
    /\ pc = "returned"
    /\ prev_weights.fmt = "csr"
    /\ _weights.m # ZeroWeights

====
